---- MODULE Spec2Model ----
(***************************************************************************)
(* Model of the todo application of src/src/app.rs (HomePage component):   *)
(* the AppState signal, the load effect, the watch that saves on every     *)
(* change, the three mutating handlers and the two read projections,       *)
(* together with the browser's localStorage entry "app-state".             *)
(*                                                                         *)
(* Strings are sequences of one-character strings, so that the JSON text   *)
(* written by serde_json::to_string and read by serde_json::from_str is    *)
(* produced and parsed character by character.                             *)
(***************************************************************************)
EXTENDS Integers, Sequences, FiniteSets, TLC

VARIABLES
    app_state,    \* the RwSignal<AppState>: [uncommitted_todo, todos]
    input_value,  \* the DOM value of the <input> element (node_ref input_element)
    local_storage,\* [avail, item]: what window().local_storage() gives, and the "app-state" entry
    pc,           \* "created": component built, load effect still queued; "running": loaded
    failures,     \* number of rejected set_item calls so far (bounded)
    last_op,      \* history: the handler that ran last, with its argument
    before_reload,\* history: the state and the last set_item calls of the page reloaded
    set_item_log, \* history: the set_item calls of the last handler, <<[value, ok]>>
    error_log     \* history: the logging::error! entries of the last handler

vars == <<app_state, input_value, local_storage, pc, failures, last_op, before_reload,
          set_item_log, error_log>>

-----------------------------------------------------------------------------
(* Bounds *)

\* longest todo list the model grows by on_click
MaxTodos == 3
\* most set_item calls the storage rejects in one behaviour
MaxFailures == 1
-----------------------------------------------------------------------------
(* Data: Bucket, Todo, AppState *)

Bucket == {"Todo", "Done"}

\* the texts a user types: empty, and one with characters JSON must escape
Texts == { <<>>, <<"a", "\"", "\\">> }

\* the identifiers of the model: those on_click assigns within the bound, and
\* MaxTodos, which it never assigns
Ids == 0..MaxTodos

Todo(id, text, bucket) == [id |-> id, text |-> text, bucket |-> bucket]

AppState(uncommitted_todo, todos) ==
    [uncommitted_todo |-> uncommitted_todo, todos |-> todos]

\* impl Default for AppState
DefaultAppState == AppState(<<>>, <<>>)

-----------------------------------------------------------------------------
(* serde_json::to_string(&state): compact JSON, fields in declaration order *)

KeyUncommittedTodo == <<"u", "n", "c", "o", "m", "m", "i", "t", "t", "e", "d", "_", "t", "o", "d", "o">>
KeyTodos == <<"t", "o", "d", "o", "s">>
KeyId == <<"i", "d">>
KeyText == <<"t", "e", "x", "t">>
KeyBucket == <<"b", "u", "c", "k", "e", "t">>
NameTodo == <<"T", "o", "d", "o">>
NameDone == <<"D", "o", "n", "e">>

DigitChars == <<"0", "1", "2", "3", "4", "5", "6", "7", "8", "9">>

\* a string's characters, with the quote and the backslash escaped
RECURSIVE Escape(_)
Escape(t) ==
    IF t = <<>> THEN <<>>
    ELSE (IF Head(t) \in {"\"", "\\"} THEN <<"\\", Head(t)>> ELSE <<Head(t)>>)
         \o Escape(Tail(t))

SerString(t) == <<"\"">> \o Escape(t) \o <<"\"">>

\* a u32 in decimal, no leading zeros
RECURSIVE SerU32(_)
SerU32(n) ==
    IF n < 10 THEN <<DigitChars[n + 1]>>
    ELSE SerU32(n \div 10) \o <<DigitChars[(n % 10) + 1]>>

\* a unit variant of enum Bucket is written as its name
SerBucket(b) == SerString(IF b = "Todo" THEN NameTodo ELSE NameDone)

SerTodo(t) ==
    <<"{">> \o SerString(KeyId) \o <<":">> \o SerU32(t.id)
    \o <<",">> \o SerString(KeyText) \o <<":">> \o SerString(t.text)
    \o <<",">> \o SerString(KeyBucket) \o <<":">> \o SerBucket(t.bucket)
    \o <<"}">>

RECURSIVE SerTodoSeq(_)
SerTodoSeq(ts) ==
    IF ts = <<>> THEN <<>>
    ELSE SerTodo(Head(ts))
         \o (IF Tail(ts) = <<>> THEN <<>> ELSE <<",">> \o SerTodoSeq(Tail(ts)))

SerVecTodo(ts) == <<"[">> \o SerTodoSeq(ts) \o <<"]">>

to_string(state) ==
    <<"{">> \o SerString(KeyUncommittedTodo) \o <<":">> \o SerString(state.uncommitted_todo)
    \o <<",">> \o SerString(KeyTodos) \o <<":">> \o SerVecTodo(state.todos)
    \o <<"}">>

-----------------------------------------------------------------------------
(* serde_json::from_str::<AppState>(&value): the JSON text is read into a   *)
(* value tree, which the derived Deserialize implementations then decode.   *)
(* \u escapes, fractions and exponents do not occur in the stored values    *)
(* the model starts from and are rejected.                                  *)

Fail == [ok |-> FALSE]
Ok(v, n) == [ok |-> TRUE, val |-> v, next |-> n]

IsDigit(c) == \E d \in 1..10 : DigitChars[d] = c
DigitVal(c) == (CHOOSE d \in 1..10 : DigitChars[d] = c) - 1

RECURSIVE SkipWs(_, _)
SkipWs(s, i) == IF i <= Len(s) /\ s[i] = " " THEN SkipWs(s, i + 1) ELSE i

\* s[i] is the first character after the opening quote
RECURSIVE ParseStringBody(_, _, _)
ParseStringBody(s, i, acc) ==
    IF i > Len(s) THEN Fail
    ELSE IF s[i] = "\"" THEN Ok(acc, i + 1)
    ELSE IF s[i] = "\\"
         THEN IF i + 1 <= Len(s) /\ s[i + 1] \in {"\"", "\\", "/"}
              THEN ParseStringBody(s, i + 2, Append(acc, s[i + 1]))
              ELSE Fail
    ELSE ParseStringBody(s, i + 1, Append(acc, s[i]))

RECURSIVE ParseDigits(_, _, _)
ParseDigits(s, i, acc) ==
    IF i <= Len(s) /\ IsDigit(s[i])
    THEN ParseDigits(s, i + 1, Append(acc, DigitVal(s[i])))
    ELSE Ok(acc, i)

\* s[i] is "-" or a digit
ParseNumber(s, i) ==
    LET neg == s[i] = "-"
        d == ParseDigits(s, IF neg THEN i + 1 ELSE i, <<>>)
    IN  IF d.val = <<>> THEN Fail
        ELSE IF Len(d.val) > 1 /\ d.val[1] = 0 THEN Fail
        ELSE IF d.next <= Len(s) /\ s[d.next] \in {".", "e", "E"} THEN Fail
        ELSE Ok([k |-> "num", neg |-> neg, digits |-> d.val], d.next)

Matches(s, i, word) ==
    /\ i + Len(word) - 1 <= Len(s)
    /\ \A j \in 1..Len(word) : s[i + j - 1] = word[j]

RECURSIVE ParseValue(_, _)
RECURSIVE ParseElems(_, _, _)
RECURSIVE ParseMembers(_, _, _)

\* after "[" or after a ",": an element, then "," or "]"
ParseElems(s, i, acc) ==
    LET v == ParseValue(s, i)
    IN  IF ~v.ok THEN Fail
        ELSE LET j == SkipWs(s, v.next)
             IN  IF j > Len(s) THEN Fail
                 ELSE IF s[j] = "," THEN ParseElems(s, j + 1, Append(acc, v.val))
                 ELSE IF s[j] = "]" THEN Ok([k |-> "arr", items |-> Append(acc, v.val)], j + 1)
                 ELSE Fail

\* after "{" or after a ",": "key" : value, then "," or "}"
ParseMembers(s, i, acc) ==
    LET j == SkipWs(s, i)
    IN  IF j > Len(s) \/ s[j] # "\"" THEN Fail
        ELSE LET key == ParseStringBody(s, j + 1, <<>>)
             IN  IF ~key.ok THEN Fail
                 ELSE LET c == SkipWs(s, key.next)
                      IN  IF c > Len(s) \/ s[c] # ":" THEN Fail
                          ELSE LET v == ParseValue(s, c + 1)
                               IN  IF ~v.ok THEN Fail
                                   ELSE LET e == SkipWs(s, v.next)
                                            m == Append(acc, [key |-> key.val, val |-> v.val])
                                        IN  IF e > Len(s) THEN Fail
                                            ELSE IF s[e] = "," THEN ParseMembers(s, e + 1, m)
                                            ELSE IF s[e] = "}" THEN Ok([k |-> "obj", members |-> m], e + 1)
                                            ELSE Fail

ParseValue(s, i0) ==
    LET i == SkipWs(s, i0)
    IN  IF i > Len(s) THEN Fail
        ELSE IF s[i] = "\""
             THEN LET r == ParseStringBody(s, i + 1, <<>>)
                  IN  IF r.ok THEN Ok([k |-> "str", chars |-> r.val], r.next) ELSE Fail
        ELSE IF s[i] = "-" \/ IsDigit(s[i]) THEN ParseNumber(s, i)
        ELSE IF s[i] = "["
             THEN LET j == SkipWs(s, i + 1)
                  IN  IF j <= Len(s) /\ s[j] = "]"
                      THEN Ok([k |-> "arr", items |-> <<>>], j + 1)
                      ELSE ParseElems(s, i + 1, <<>>)
        ELSE IF s[i] = "{"
             THEN LET j == SkipWs(s, i + 1)
                  IN  IF j <= Len(s) /\ s[j] = "}"
                      THEN Ok([k |-> "obj", members |-> <<>>], j + 1)
                      ELSE ParseMembers(s, i + 1, <<>>)
        ELSE IF Matches(s, i, <<"n", "u", "l", "l">>) THEN Ok([k |-> "null"], i + 4)
        ELSE IF Matches(s, i, <<"t", "r", "u", "e">>) THEN Ok([k |-> "bool"], i + 4)
        ELSE IF Matches(s, i, <<"f", "a", "l", "s", "e">>) THEN Ok([k |-> "bool"], i + 5)
        ELSE Fail

\* a whole document: one value, then nothing but whitespace
ParseDocument(s) ==
    LET v == ParseValue(s, 1)
    IN  IF v.ok /\ SkipWs(s, v.next) > Len(s) THEN v ELSE Fail

-----------------------------------------------------------------------------
(* The derived Deserialize implementations (#[derive(Deserialize)] on       *)
(* Bucket, Todo and AppState): a struct is read from an object (unknown     *)
(* keys ignored, a missing or repeated field an error) or from an array of  *)
(* its fields in declaration order.                                         *)

NoValue == [ok |-> FALSE]
Some(v) == [ok |-> TRUE, val |-> v]

RECURSIVE DigitsValue(_)
DigitsValue(ds) ==
    IF ds = <<>> THEN 0 ELSE 10 * DigitsValue(SubSeq(ds, 1, Len(ds) - 1)) + ds[Len(ds)]

\* pub id: u32 (numbers of ten or more digits are outside the model's range)
DecodeU32(v) ==
    IF v.k = "num" /\ ~v.neg /\ Len(v.digits) <= 9 THEN Some(DigitsValue(v.digits)) ELSE NoValue

DecodeString(v) == IF v.k = "str" THEN Some(v.chars) ELSE NoValue

VariantOf(name) ==
    IF name = NameTodo THEN Some("Todo")
    ELSE IF name = NameDone THEN Some("Done")
    ELSE NoValue

\* pub enum Bucket { Todo, Done }: "Todo", or {"Todo": null}
DecodeBucket(v) ==
    IF v.k = "str" THEN VariantOf(v.chars)
    ELSE IF v.k = "obj" /\ Len(v.members) = 1 /\ v.members[1].val.k = "null"
         THEN VariantOf(v.members[1].key)
    ELSE NoValue

\* the positions in an object's members that carry the key
Positions(members, key) == {i \in 1..Len(members) : members[i].key = key}

\* the value of a field of a struct read from v, or NoValue when v does not
\* give the field exactly once
Field(v, key, index, nfields) ==
    IF v.k = "obj"
    THEN LET ps == Positions(v.members, key)
         IN  IF Cardinality(ps) = 1 THEN Some(v.members[CHOOSE i \in ps : TRUE].val) ELSE NoValue
    ELSE IF v.k = "arr" /\ Len(v.items) = nfields THEN Some(v.items[index])
    ELSE NoValue

\* pub struct Todo { id, text, bucket }
DecodeTodo(v) ==
    LET fid == Field(v, KeyId, 1, 3)
        ftext == Field(v, KeyText, 2, 3)
        fbucket == Field(v, KeyBucket, 3, 3)
    IN  IF ~(fid.ok /\ ftext.ok /\ fbucket.ok) THEN NoValue
        ELSE LET id == DecodeU32(fid.val)
                 text == DecodeString(ftext.val)
                 bucket == DecodeBucket(fbucket.val)
             IN  IF id.ok /\ text.ok /\ bucket.ok
                 THEN Some(Todo(id.val, text.val, bucket.val))
                 ELSE NoValue

\* Vec<Todo>
DecodeVecTodo(v) ==
    IF v.k # "arr" THEN NoValue
    ELSE IF \A i \in 1..Len(v.items) : DecodeTodo(v.items[i]).ok
         THEN Some([i \in 1..Len(v.items) |-> DecodeTodo(v.items[i]).val])
         ELSE NoValue

\* pub struct AppState { uncommitted_todo, todos }
DecodeAppState(v) ==
    LET fu == Field(v, KeyUncommittedTodo, 1, 2)
        ft == Field(v, KeyTodos, 2, 2)
    IN  IF ~(fu.ok /\ ft.ok) THEN NoValue
        ELSE LET u == DecodeString(fu.val)
                 t == DecodeVecTodo(ft.val)
             IN  IF u.ok /\ t.ok THEN Some(AppState(u.val, t.val)) ELSE NoValue

\* serde_json::from_str::<AppState>(&value).ok()
from_str(value) ==
    LET doc == ParseDocument(value)
    IN  IF doc.ok THEN DecodeAppState(doc.val) ELSE NoValue

-----------------------------------------------------------------------------
(* The application: HomePage *)

\* window().local_storage(): Err(_) ("err"), Ok(None) ("none") or Ok(Some(storage)) ("ok");
\* item is the entry under STORAGE_KEY, which only an available storage holds
Storage(avail, item) == [avail |-> avail, item |-> item]

\* load_data, were its fallback a sample list instead of the empty state
load_data_sample(storage, get_ok) ==
    LET starting_todos ==
            IF storage.avail # "ok" THEN NoValue
            ELSE IF ~get_ok THEN NoValue
            ELSE IF ~storage.item.ok THEN NoValue
            ELSE from_str(storage.item.val)
    IN  IF starting_todos.ok THEN starting_todos.val
        ELSE AppState(<<>>, <<Todo(0, <<"a">>, "Todo")>>)

\* let load_data = || { ... }; get_ok: storage.get_item(STORAGE_KEY) returned Ok
load_data(storage, get_ok) ==
    LET starting_todos ==
            IF storage.avail # "ok" THEN NoValue
            ELSE IF ~get_ok THEN NoValue
            ELSE IF ~storage.item.ok THEN NoValue
            ELSE from_str(storage.item.val)
    IN  IF starting_todos.ok THEN starting_todos.val
        ELSE AppState(<<>>, <<>>)

\* save_to_local_storage, were it to leave uncommitted_todo out of the state it writes
save_todos_only(state, storage, set_ok) ==
    IF storage.avail = "ok"
    THEN LET json == to_string(AppState(<<>>, state.todos))
         IN  [storage |-> IF set_ok THEN Storage("ok", Some(json)) ELSE storage,
              calls |-> <<[value |-> json, ok |-> set_ok]>>,
              errors |-> IF set_ok THEN 0 ELSE 1]
    ELSE [storage |-> storage, calls |-> <<>>, errors |-> 0]

\* save_to_local_storage, were a rejected set_item ignored without a log entry
save_unlogged(state, storage, set_ok) ==
    IF storage.avail = "ok"
    THEN LET json == to_string(AppState(state.uncommitted_todo, state.todos))
         IN  [storage |-> IF set_ok THEN Storage("ok", Some(json)) ELSE storage,
              calls |-> <<[value |-> json, ok |-> set_ok]>>,
              errors |-> 0]
    ELSE [storage |-> storage, calls |-> <<>>, errors |-> 0]

\* let save_to_local_storage = move || { ... }; set_ok: storage.set_item returned Ok.
\* Gives the storage afterwards, the set_item calls made and the errors logged.
save_to_local_storage(state, storage, set_ok) ==
    IF storage.avail = "ok"
    THEN LET json == to_string(AppState(state.uncommitted_todo, state.todos))
         IN  [storage |-> IF set_ok THEN Storage("ok", Some(json)) ELSE storage,
              calls |-> <<[value |-> json, ok |-> set_ok]>>,
              errors |-> IF set_ok THEN 0 ELSE 1]
    ELSE [storage |-> storage, calls |-> <<>>, errors |-> 0]

\* watch, were a rejected write to put the old value back into the signal
watch_rollback(old_state, new_state, storage, set_ok) ==
    LET saved == save_to_local_storage(new_state, storage, set_ok)
    IN  [app_state |-> IF saved.errors > 0 THEN old_state ELSE new_state,
         storage |-> saved.storage, calls |-> saved.calls, errors |-> saved.errors]

\* watch, were it to skip the callback when the value written equals the old one
watch_if_changed(old_state, new_state, storage, set_ok) ==
    LET saved == IF new_state = old_state
                 THEN [storage |-> storage, calls |-> <<>>, errors |-> 0]
                 ELSE save_to_local_storage(new_state, storage, set_ok)
    IN  [app_state |-> new_state, storage |-> saved.storage,
         calls |-> saved.calls, errors |-> saved.errors]

\* watch(move || app_state.get(), |new, old, _| save_to_local_storage(), false):
\* the callback runs once for every write to the signal, after the write,
\* whether or not the value differs from the old one, and the signal keeps
\* the value written
watch(old_state, new_state, storage, set_ok) ==
    LET saved == save_to_local_storage(new_state, storage, set_ok)
    IN  [app_state |-> new_state, storage |-> saved.storage,
         calls |-> saved.calls, errors |-> saved.errors]

\* the setter, were it to refuse an empty text
set_uncommitted_todo_nonempty(state, new_value) ==
    IF new_value = <<>> THEN state ELSE [state EXCEPT !.uncommitted_todo = new_value]

\* the setter of create_slice: state.uncommitted_todo = new_value
set_uncommitted_todo(state, new_value) ==
    [state EXCEPT !.uncommitted_todo = new_value]

\* on_click, were identifiers counted from one
on_click_from_one(state, value) ==
    [state EXCEPT !.todos =
        Append(state.todos, Todo(Len(state.todos) + 1, value, "Todo"))]

\* on_click, were it to empty the scratch input once the item is added
on_click_clearing(state, value) ==
    [state EXCEPT !.todos =
        Append(state.todos, Todo(Len(state.todos), value, "Todo")),
                  !.uncommitted_todo = <<>>]

\* on_click, were the identifier the number of todos still to do
on_click_counting_todo(state, value) ==
    [state EXCEPT !.todos =
        Append(state.todos,
               Todo(Len(SelectSeq(state.todos, LAMBDA todo : todo.bucket = "Todo")),
                    value, "Todo"))]

\* on_click: app_state.update(|state| state.todos.push(Todo { .. })).
\* state.todos.len() as u32 is the length itself: a Vec of 2^32 todos is out of reach.
on_click(state, value) ==
    [state EXCEPT !.todos =
        Append(state.todos, Todo(Len(state.todos), value, "Todo"))]

\* find, were it to give the last match
find_last(todos, index) ==
    IF \E i \in 1..Len(todos) : todos[i].id = index
    THEN CHOOSE i \in 1..Len(todos) :
            /\ todos[i].id = index
            /\ \A j \in (i + 1)..Len(todos) : todos[j].id # index
    ELSE 0

\* find, were it to fall back to the first todo when none matches
find_or_first(todos, index) ==
    IF \E i \in 1..Len(todos) : todos[i].id = index
    THEN CHOOSE i \in 1..Len(todos) :
            /\ todos[i].id = index
            /\ \A j \in 1..(i - 1) : todos[j].id # index
    ELSE IF todos # <<>> THEN 1 ELSE 0

\* state.todos.iter_mut().find(|todo| todo.id == index): the first match, 0 when none
find(todos, index) ==
    IF \E i \in 1..Len(todos) : todos[i].id = index
    THEN CHOOSE i \in 1..Len(todos) :
            /\ todos[i].id = index
            /\ \A j \in 1..(i - 1) : todos[j].id # index
    ELSE 0

mark_as_todo(state, index) ==
    LET i == find(state.todos, index)
    IN  IF i # 0 THEN [state EXCEPT !.todos[i].bucket = "Todo"] ELSE state

\* mark_as_done, were it to move the todo to the end of the list
mark_as_done_moving(state, index) ==
    LET i == find(state.todos, index)
    IN  IF i # 0
        THEN [state EXCEPT !.todos =
                SubSeq(state.todos, 1, i - 1) \o SubSeq(state.todos, i + 1, Len(state.todos))
                \o <<Todo(state.todos[i].id, state.todos[i].text, "Done")>>]
        ELSE state

mark_as_done(state, index) ==
    LET i == find(state.todos, index)
    IN  IF i # 0 THEN [state EXCEPT !.todos[i].bucket = "Done"] ELSE state

\* done_list, were its filter to compare the text of the todo
done_list_by_text(state) == SelectSeq(state.todos, LAMBDA todo : todo.text = <<>>)

\* the read projections: .iter().filter(|todo| todo.bucket == ..).cloned().collect()
todo_list(state) == SelectSeq(state.todos, LAMBDA todo : todo.bucket = "Todo")
done_list(state) == SelectSeq(state.todos, LAMBDA todo : todo.bucket = "Done")

-----------------------------------------------------------------------------
(* What the "app-state" entry can hold when the page is opened: nothing, a  *)
(* value this program wrote, or a value some other writer left there.       *)

\* not JSON at all
GarbageValue == <<"h", "i">>

\* an AppState of an earlier layout, with a bucket this enum does not have
LegacyValue ==
    <<"{", "\"", "u", "n", "c", "o", "m", "m", "i", "t", "t", "e", "d", "_", "t", "o", "d",
      "o", "\"", ":", "\"", "\"", ",", "\"", "t", "o", "d", "o", "s", "\"", ":", "[", "{",
      "\"", "i", "d", "\"", ":", "0", ",", "\"", "t", "e", "x", "t", "\"", ":", "\"", "a",
      "\"", ",", "\"", "b", "u", "c", "k", "e", "t", "\"", ":", "\"", "S", "o", "o", "n",
      "\"", "}", "]", "}">>

\* JSON, but not an AppState: uncommitted_todo is missing
MissingFieldValue ==
    <<"{", "\"", "t", "o", "d", "o", "s", "\"", ":", "[", "]", "}">>

\* GapState (below) in the other forms the deserializer takes: whitespace, fields
\* in another order, an unknown key, a struct as an array, a variant as an object
OtherFormValue ==
    <<"{", " ", "\"", "t", "o", "d", "o", "s", "\"", ":", " ", "[", "[", "1", ",", " ",
      "\"", "a", "\\", "\"", "\\", "\\", "\"", ",", " ", "{", "\"", "T", "o", "d", "o",
      "\"", ":", " ", "n", "u", "l", "l", "}", "]", "]", ",", " ", "\"", "v", "\"", ":",
      " ", "[", "t", "r", "u", "e", ",", " ", "-", "1", "]", ",", " ", "\"", "u", "n", "c",
      "o", "m", "m", "i", "t", "t", "e", "d", "_", "t", "o", "d", "o", "\"", ":", " ",
      "\"", "\"", " ", "}">>

\* states another writer stored: an identifier that is not the position, and
\* one identifier twice
GapState == AppState(<<>>, <<Todo(1, <<"a", "\"", "\\">>, "Todo")>>)
TwinState == AppState(<<>>, <<Todo(0, <<>>, "Done"), Todo(0, <<>>, "Todo")>>)

\* a value cut short, as a writer interrupted would leave it
TruncatedValue == SubSeq(to_string(GapState), 1, 30)

CorruptValues == {<<>>, GarbageValue, LegacyValue, MissingFieldValue, TruncatedValue}

ForeignValues == {OtherFormValue, to_string(GapState), to_string(TwinState)}

InitialStorage ==
    {Storage("err", NoValue), Storage("none", NoValue), Storage("ok", NoValue)}
    \cup {Storage("ok", Some(v)) : v \in CorruptValues \cup ForeignValues}

-----------------------------------------------------------------------------
(* State machine *)

\* read_ok: get_item returned Ok (of the load; TRUE for the other handlers)
Op(name, index, read_ok) == [name |-> name, index |-> index, read_ok |-> read_ok]

\* the index a call of mark_as_todo or mark_as_done is given: an identifier in
\* the list, or one that is not (the smallest stands for them all)
IdsOf(state) == {state.todos[i].id : i \in 1..Len(state.todos)}
Indexes(state) ==
    IdsOf(state) \cup {CHOOSE n \in Ids \ IdsOf(state) : \A m \in Ids \ IdsOf(state) : n <= m}

\* whether set_item may still be rejected: rejections are bounded
SetOutcomes == IF failures < MaxFailures THEN BOOLEAN ELSE {TRUE}

\* the world after a write to the signal, with the histories of the handler
Install(w, op) ==
    /\ app_state' = w.app_state
    /\ local_storage' = w.storage
    /\ set_item_log' = w.calls
    /\ error_log' = w.errors
    /\ failures' = failures + w.errors
    /\ last_op' = op

Init ==
    /\ app_state = DefaultAppState
    /\ input_value = <<>>
    /\ local_storage \in InitialStorage
    /\ pc = "created"
    /\ failures = 0
    /\ last_op = Op("new", 0, TRUE)
    /\ before_reload = NoValue
    /\ set_item_log = <<>>
    /\ error_log = 0

\* the load effect, were it to subscribe to app_state and so run again after
\* every change
LoadEffectRerun ==
    /\ pc \in {"created", "running"}
    /\ \E get_ok \in BOOLEAN, set_ok \in SetOutcomes :
          Install(watch(app_state, load_data(local_storage, get_ok), local_storage, set_ok),
                  Op("load", 0, get_ok))
    /\ input_value' = app_state'.uncommitted_todo
    /\ pc' = "running"
    /\ UNCHANGED before_reload

\* the load effect, were the watch to start tracking only after it has run
LoadEffectUnwatched ==
    /\ pc = "created"
    /\ \E get_ok \in BOOLEAN :
          /\ app_state' = load_data(local_storage, get_ok)
          /\ last_op' = Op("load", 0, get_ok)
    /\ set_item_log' = <<>>
    /\ error_log' = 0
    /\ input_value' = app_state'.uncommitted_todo
    /\ pc' = "running"
    /\ UNCHANGED <<local_storage, failures, before_reload>>

\* create_effect(move |_| app_state.set(load_data())): runs once, as a microtask
\* after the component is built, so before any event; the watch, already tracking
\* app_state, then saves; prop:value=uncommitted_todo shows the loaded text
LoadEffect ==
    /\ pc = "created"
    /\ \E get_ok \in BOOLEAN, set_ok \in SetOutcomes :
          Install(watch(app_state, load_data(local_storage, get_ok), local_storage, set_ok),
                  Op("load", 0, get_ok))
    /\ input_value' = app_state'.uncommitted_todo
    /\ pc' = "running"
    /\ UNCHANGED before_reload

\* on:input: the user has made the field read new_value
OnInput(new_value) ==
    /\ pc = "running"
    /\ \E set_ok \in SetOutcomes :
          Install(watch(app_state, set_uncommitted_todo(app_state, new_value),
                        local_storage, set_ok),
                  Op("set_uncommitted_todo", 0, TRUE))
    /\ input_value' = new_value
    /\ pc' = pc
    /\ before_reload' = NoValue

\* on:click of "Add todo": the value is read from the <input> element
OnClick ==
    /\ pc = "running"
    /\ Len(app_state.todos) < MaxTodos
    /\ \E set_ok \in SetOutcomes :
          Install(watch(app_state, on_click(app_state, input_value), local_storage, set_ok),
                  Op("on_click", 0, TRUE))
    /\ before_reload' = NoValue
    /\ UNCHANGED <<input_value, pc>>

\* UNDO button of a row of the done list
MarkAsTodo(index) ==
    /\ pc = "running"
    /\ \E set_ok \in SetOutcomes :
          Install(watch(app_state, mark_as_todo(app_state, index), local_storage, set_ok),
                  Op("mark_as_todo", index, TRUE))
    /\ before_reload' = NoValue
    /\ UNCHANGED <<input_value, pc>>

\* checkbox of a row of the todo list
MarkAsDone(index) ==
    /\ pc = "running"
    /\ \E set_ok \in SetOutcomes :
          Install(watch(app_state, mark_as_done(app_state, index), local_storage, set_ok),
                  Op("mark_as_done", index, TRUE))
    /\ before_reload' = NoValue
    /\ UNCHANGED <<input_value, pc>>

\* the page is reloaded: HomePage is built anew, create_rw_signal(AppState::default());
\* the storage keeps its entry
Reload ==
    /\ pc = "running"
    /\ app_state' = DefaultAppState
    /\ input_value' = <<>>
    /\ pc' = "created"
    /\ last_op' = Op("new", 0, TRUE)
    /\ before_reload' = Some([app_state |-> app_state, calls |-> set_item_log])
    /\ set_item_log' = <<>>
    /\ error_log' = 0
    /\ UNCHANGED <<local_storage, failures>>

Next ==
    \/ LoadEffect
    \/ \E new_value \in Texts : OnInput(new_value)
    \/ OnClick
    \/ \E index \in Indexes(app_state) : MarkAsTodo(index)
    \/ \E index \in Indexes(app_state) : MarkAsDone(index)
    \/ Reload

Spec == Init /\ [][Next]_vars

\* the page opened on a storage nobody else has written: unavailable, without
\* the entry, or with an empty one
InitOwn ==
    /\ Init
    /\ local_storage.item \in {NoValue, Some(<<>>)}

SpecOwn == InitOwn /\ [][Next]_vars

-----------------------------------------------------------------------------
(* Claims *)

\* the handlers that mutate the state after startup
Mutations == {"set_uncommitted_todo", "on_click", "mark_as_todo", "mark_as_done"}

\* C1 as stated: every mutation is followed by exactly one persistence write,
\* and the value written is the serialization of the state after the mutation.
C1_OneWritePerMutation ==
    last_op.name \in Mutations =>
        /\ Len(set_item_log) = 1
        /\ set_item_log[1].value = to_string(app_state)

\* C1 as amended: with the storage available, every mutation is followed by
\* exactly one set_item call, whose value is the serialization of the state
\* after the mutation; with the storage unavailable, by none.
C1_OneWritePerMutationWhenAvailable ==
    last_op.name \in Mutations =>
        IF local_storage.avail = "ok"
        THEN /\ Len(set_item_log) = 1
             /\ set_item_log[1].value = to_string(app_state)
        ELSE set_item_log = <<>>

\* a mark_as_done of an identifier not in the list (the state is as before) has
\* still written the state, once
C1_Witness ==
    /\ last_op.name = "mark_as_done"
    /\ last_op.index \notin IdsOf(app_state)
    /\ Len(app_state.todos) = 2
    /\ Len(set_item_log) = 1
    /\ set_item_log[1].ok
    /\ local_storage.item = Some(to_string(app_state))

\* C2: with the storage available and the writes succeeding, the load after a
\* reload installs the state the page had just before the reload.
C2_ReloadRoundTrip ==
    ( /\ last_op.name = "load"
      /\ last_op.read_ok
      /\ before_reload.ok
      /\ Len(before_reload.val.calls) = 1
      /\ before_reload.val.calls[1].ok )
    => app_state = before_reload.val.app_state

\* a list with a done item, texts that need escaping and a scratch text came
\* back from the storage
C2_Witness ==
    /\ last_op.name = "load"
    /\ last_op.read_ok
    /\ before_reload.ok
    /\ Len(before_reload.val.calls) = 1
    /\ before_reload.val.calls[1].ok
    /\ app_state = before_reload.val.app_state
    /\ Len(app_state.todos) = 3
    /\ app_state.todos[2].bucket = "Done"
    /\ app_state.todos[3].text = <<"a", "\"", "\\">>
    /\ app_state.uncommitted_todo = <<"a", "\"", "\\">>

\* C3: load() gives the default empty state when the storage is unavailable,
\* the read fails, the key is absent or the value is not an AppState; any
\* other state it gives is the one the stored value deserializes to.
C3_LoadNeverFails ==
    [][ (pc = "created" /\ pc' = "running") =>
          LET item == local_storage.item
          IN  /\ local_storage.avail # "ok" => app_state' = DefaultAppState
              /\ ~last_op'.read_ok => app_state' = DefaultAppState
              /\ ~item.ok => app_state' = DefaultAppState
              /\ (item.ok /\ item.val \in CorruptValues) => app_state' = DefaultAppState
              /\ app_state' # DefaultAppState =>
                    /\ local_storage.avail = "ok"
                    /\ item.ok
                    /\ from_str(item.val) = Some(app_state')
              /\ (last_op'.read_ok /\ item = Some(to_string(TwinState))) =>
                    app_state' = TwinState
      ]_vars

\* a load that found a value of an earlier layout started from the empty state
\* (the write that follows was rejected, so the value is still there)
C3_Witness ==
    /\ last_op.name = "load"
    /\ last_op.read_ok
    /\ local_storage.item = Some(LegacyValue)
    /\ app_state = DefaultAppState

UniqueIds(todos) ==
    \A i, j \in 1..Len(todos) : todos[i].id = todos[j].id => i = j

\* C4 as stated: in every state after load(), whatever state it installed, no
\* two items of the list have the same identifier.
C4_IdentifiersUnique ==
    pc = "running" => UniqueIds(app_state.todos)

\* the marking handlers
Marks == {"mark_as_todo", "mark_as_done"}

\* C5: on_click appends one item, with the number of items present as its
\* identifier, the text of the input and bucket Todo, and changes no other
\* item; a list whose identifiers are the positions stays such a list.
C5_AddItemAppends ==
    [][ (pc = "running" /\ last_op'.name = "on_click") =>
          LET old == app_state.todos
              new == app_state'.todos
          IN  /\ Len(new) = Len(old) + 1
              /\ \A i \in 1..Len(old) : new[i] = old[i]
              /\ new[Len(new)].id = Len(old)
              /\ new[Len(new)].text = input_value
              /\ new[Len(new)].bucket = "Todo"
              /\ (\A i \in 1..Len(old) : old[i].id = i - 1)
                    => (\A i \in 1..Len(new) : new[i].id = i - 1)
      ]_vars

\* three items added to an empty list: identifiers 0, 1, 2, all in Todo, the
\* second with the empty text, the third with the text of the first
C5_Witness ==
    /\ last_op.name = "on_click"
    /\ Len(app_state.todos) = 3
    /\ \A i \in 1..3 : app_state.todos[i].id = i - 1 /\ app_state.todos[i].bucket = "Todo"
    /\ app_state.todos[2].text = <<>>
    /\ app_state.todos[3].text = app_state.todos[1].text
    /\ app_state.todos[1].text # <<>>

FirstPosition(todos, index) ==
    CHOOSE i \in 1..Len(todos) :
        todos[i].id = index /\ \A j \in 1..(i - 1) : todos[j].id # index

Without(todos, i) == SubSeq(todos, 1, i - 1) \o SubSeq(todos, i + 1, Len(todos))

\* C6: mark_as_done / mark_as_todo of an identifier in the list sets the
\* bucket of the first item with it, and leaves every other item, the order,
\* the length and the scratch input alone; the two projections change by
\* that item only.
C6_SetBucketFrame ==
    [][ (pc = "running" /\ last_op'.name \in Marks
            /\ last_op'.index \in IdsOf(app_state)) =>
          LET old == app_state.todos
              new == app_state'.todos
              b == IF last_op'.name = "mark_as_done" THEN "Done" ELSE "Todo"
              i == FirstPosition(old, last_op'.index)
              rest(ts) == AppState(<<>>, Without(ts, i))
          IN  /\ Len(new) = Len(old)
              /\ new[i] = Todo(old[i].id, old[i].text, b)
              /\ \A j \in 1..Len(old) : j # i => new[j] = old[j]
              /\ app_state'.uncommitted_todo = app_state.uncommitted_todo
              /\ todo_list(rest(new)) = todo_list(rest(old))
              /\ done_list(rest(new)) = done_list(rest(old))
              /\ LET shown == IF b = "Done" THEN done_list(app_state')
                                            ELSE todo_list(app_state')
                     hidden == IF b = "Done" THEN todo_list(app_state')
                                             ELSE done_list(app_state')
                 IN  /\ \E k \in 1..Len(shown) : shown[k] = new[i]
                     /\ Len(hidden) = Len(new) - Len(shown)
      ]_vars

\* identifiers {0, 1, 2}, and 1 alone has been moved to Done
C6_Witness ==
    /\ last_op = Op("mark_as_done", 1, TRUE)
    /\ Len(app_state.todos) = 3
    /\ \A i \in 1..3 : app_state.todos[i].id = i - 1
    /\ Len(todo_list(app_state)) = 2
    /\ todo_list(app_state)[1].id = 0
    /\ todo_list(app_state)[2].id = 2
    /\ Len(done_list(app_state)) = 1
    /\ done_list(app_state)[1].id = 1

\* C7: mark_as_done / mark_as_todo of an identifier no item has leaves the
\* whole state, scratch input and list, as it was, and the handler completes.
C7_SetBucketAbsentNoOp ==
    [][ (pc = "running" /\ last_op'.name \in Marks
            /\ last_op'.index \notin IdsOf(app_state)) =>
          /\ app_state' = app_state
          /\ input_value' = input_value
          /\ pc' = "running"
      ]_vars

\* a mark_as_todo of an identifier that is not in a list with a done item
C7_Witness ==
    /\ last_op.name = "mark_as_todo"
    /\ last_op.index \notin IdsOf(app_state)
    /\ Len(app_state.todos) = 2
    /\ app_state.todos[1].bucket = "Done"

\* C8 as stated: for every item in Todo, mark_as_done of its identifier
\* followed by mark_as_todo of it gives back the state before the two calls.
C8_ToggleRoundTrip ==
    pc = "running" =>
        \A p \in 1..Len(app_state.todos) :
            app_state.todos[p].bucket = "Todo" =>
                mark_as_todo(mark_as_done(app_state, app_state.todos[p].id),
                             app_state.todos[p].id) = app_state

\* C9: on_click leaves uncommitted_todo as it was.
C9_AddItemKeepsScratch ==
    [][ (pc = "running" /\ last_op'.name = "on_click") =>
          /\ app_state'.uncommitted_todo = app_state.uncommitted_todo
          /\ input_value' = input_value
      ]_vars

\* an item was added and its text is still in the scratch input
C9_Witness ==
    /\ last_op.name = "on_click"
    /\ app_state.uncommitted_todo # <<>>
    /\ app_state.todos[Len(app_state.todos)].text = app_state.uncommitted_todo
    /\ input_value = app_state.uncommitted_todo

\* what a handler makes of the state in memory
Effect(state, op, typed, shown) ==
    CASE op.name = "set_uncommitted_todo" -> set_uncommitted_todo(state, typed)
      [] op.name = "on_click" -> on_click(state, shown)
      [] op.name = "mark_as_todo" -> mark_as_todo(state, op.index)
      [] op.name = "mark_as_done" -> mark_as_done(state, op.index)

\* C10: with the storage unavailable, or once a write has been rejected, every
\* mutation still leaves in memory exactly what the handler made of the
\* state, set_item is called at most once (no retry), a rejected write leaves
\* the stored value alone, and the application keeps running.
C10_StorageFailureNotFatal ==
    [][ (pc = "running" /\ last_op'.name \in Mutations
            /\ (local_storage.avail # "ok" \/ failures' > 0)) =>
          /\ app_state' = Effect(app_state, last_op', input_value', input_value)
          /\ Len(set_item_log') <= 1
          /\ error_log' > 0 => local_storage' = local_storage
          /\ pc' = "running"
      ]_vars

\* a write was rejected; the item added then is in memory, and so is the one
\* added after it
C10_Witness ==
    /\ last_op.name = "on_click"
    /\ failures > 0
    /\ error_log = 0
    /\ Len(app_state.todos) = 2
    /\ local_storage.item = Some(to_string(app_state))

\* the handlers that write the signal, and so run the save
Handlers == Mutations \cup {"load"}

\* whether the save of the last handler wrote the state
SaveFailed ==
    \/ local_storage.avail # "ok"
    \/ \E i \in 1..Len(set_item_log) : ~set_item_log[i].ok

\* C11 as stated: every save that cannot write the state, the write rejected
\* or the storage unavailable, emits an error log entry, and the handler
\* completes.
C11_EveryFailedSaveLogged ==
    (last_op.name \in Handlers /\ SaveFailed) =>
        /\ error_log >= 1
        /\ pc = "running"

\* C11 as amended: a save whose set_item is rejected emits exactly one error
\* log entry; a save with the storage unavailable emits none; either way the
\* handler completes.
C11_RejectedWriteLogged ==
    last_op.name \in Handlers =>
        /\ error_log = Cardinality({i \in 1..Len(set_item_log) : ~set_item_log[i].ok})
        /\ local_storage.avail # "ok" => error_log = 0
        /\ pc = "running"

\* the write of an added item was rejected and logged; the item is in memory
C11_Witness ==
    /\ last_op.name = "on_click"
    /\ Len(set_item_log) = 1
    /\ ~set_item_log[1].ok
    /\ error_log = 1
    /\ Len(app_state.todos) = 1
    /\ local_storage.item # Some(to_string(app_state))

\* C12: load() runs once per page load, before any mutation; afterwards the
\* state in memory changes only by what a mutation makes of it, never by
\* another load from the storage.
C12_LoadOnceAtStart ==
    [][ /\ last_op'.name = "load" => (pc = "created" /\ last_op.name = "new")
        /\ last_op'.name \in Mutations => (pc = "running" /\ last_op.name # "new")
        /\ (pc = "running" /\ pc' = "running") =>
              /\ last_op'.name \in Mutations
              /\ app_state' = Effect(app_state, last_op', input_value', input_value)
      ]_vars

\* the stored value lags behind the memory (a write was rejected), and the
\* handlers went on from the state in memory
C12_Witness ==
    /\ last_op.name = "mark_as_done"
    /\ Len(app_state.todos) = 2
    /\ app_state.todos[2].bucket = "Done"
    /\ local_storage.item.ok
    /\ from_str(local_storage.item.val).ok
    /\ from_str(local_storage.item.val).val # app_state

\* C13: the setter replaces uncommitted_todo by the text given, whatever the
\* text, and leaves the list of todos as it was.
C13_SetScratchInput ==
    [][ (pc = "running" /\ last_op'.name = "set_uncommitted_todo") =>
          /\ app_state'.uncommitted_todo = input_value'
          /\ app_state'.todos = app_state.todos
      ]_vars

\* the scratch input was emptied again next to a list with a done todo
C13_Witness ==
    /\ last_op.name = "set_uncommitted_todo"
    /\ app_state.uncommitted_todo = <<>>
    /\ Len(app_state.todos) = 2
    /\ app_state.todos[1].bucket = "Done"
    /\ app_state.todos[2].text # <<>>

\* C14: in every step after the load the list does not shrink, every todo
\* already present keeps its position, identifier and text, and its bucket
\* is Todo or Done.
C14_AppendOnly ==
    [][ (pc = "running" /\ pc' = "running") =>
          LET old == app_state.todos
              new == app_state'.todos
          IN  /\ Len(new) >= Len(old)
              /\ \A i \in 1..Len(old) :
                    /\ new[i].id = old[i].id
                    /\ new[i].text = old[i].text
              /\ \A i \in 1..Len(new) : new[i].bucket \in Bucket
      ]_vars

\* the first of three todos has been moved to Done and is still the first
C14_Witness ==
    /\ last_op = Op("mark_as_done", 0, TRUE)
    /\ Len(app_state.todos) = 3
    /\ app_state.todos[1].id = 0
    /\ app_state.todos[1].bucket = "Done"
    /\ app_state.todos[2].id = 1
    /\ app_state.todos[3].id = 2

\* the positions of the list in a bucket, and the k-th of a set of positions
PositionsIn(state, b) == {i \in 1..Len(state.todos) : state.todos[i].bucket = b}
Nth(ps, k) == CHOOSE i \in ps : Cardinality({j \in ps : j < i}) = k - 1

\* a projection holds exactly the todos at the positions ps, in list order
IsProjection(list, state, ps) ==
    /\ Len(list) = Cardinality(ps)
    /\ \A k \in 1..Len(list) : list[k] = state.todos[Nth(ps, k)]

\* C15: todo_list and done_list partition the list: every position is in
\* exactly one of them, their lengths add up to the length of the list, and
\* each keeps the order of the list.
C15_ProjectionsPartition ==
    LET todo == PositionsIn(app_state, "Todo")
        done == PositionsIn(app_state, "Done")
    IN  /\ todo \cup done = 1..Len(app_state.todos)
        /\ todo \cap done = {}
        /\ IsProjection(todo_list(app_state), app_state, todo)
        /\ IsProjection(done_list(app_state), app_state, done)
        /\ Len(todo_list(app_state)) + Len(done_list(app_state)) = Len(app_state.todos)

\* three todos, the second done: the projections are <<0, 2>> and <<1>>
C15_Witness ==
    /\ Len(app_state.todos) = 3
    /\ \A i \in 1..3 : app_state.todos[i].id = i - 1
    /\ app_state.todos[2].bucket = "Done"
    /\ app_state.todos[2].text # <<>>
    /\ Len(todo_list(app_state)) = 2
    /\ todo_list(app_state)[1].id = 0
    /\ todo_list(app_state)[2].id = 2
    /\ Len(done_list(app_state)) = 1
    /\ done_list(app_state)[1].id = 1

Positional(todos) == \A i \in 1..Len(todos) : todos[i].id = i - 1

\* C16: starting from a storage without a value of another writer, and
\* across reloads, the todo at position i (from 0) has identifier i, in
\* memory and in the stored value; an identifier matches at most one todo,
\* the one find gives.
C16_IdentifiersPositional ==
    /\ Positional(app_state.todos)
    /\ \A index \in Ids :
          LET matches == {i \in 1..Len(app_state.todos) : app_state.todos[i].id = index}
          IN  /\ Cardinality(matches) <= 1
              /\ matches = IF find(app_state.todos, index) = 0 THEN {}
                           ELSE {find(app_state.todos, index)}
    /\ (local_storage.item.ok /\ from_str(local_storage.item.val).ok) =>
          Positional(from_str(local_storage.item.val).val.todos)

\* the list a reload has loaded back from the value this program wrote has
\* identifiers 0, 1, 2, the second todo done
C16_Witness ==
    /\ last_op.name = "load"
    /\ before_reload.ok
    /\ Len(app_state.todos) = 3
    /\ Positional(app_state.todos)
    /\ app_state.todos[2].bucket = "Done"
    /\ find(app_state.todos, 2) = 3

\* C17: with the storage available and the write accepted, every handler that
\* writes the signal, the load at startup included, has made one write and
\* left under the key the serialization of the state in memory, which
\* deserializes to it; after the load of an absent or corrupt value that is
\* the serialized empty state.
C17_StartupSaves ==
    ( /\ pc = "running"
      /\ local_storage.avail = "ok"
      /\ \A i \in 1..Len(set_item_log) : set_item_log[i].ok )
    =>  /\ last_op.name \in Handlers
        /\ Len(set_item_log) = 1
        /\ set_item_log[1].ok
        /\ local_storage.item = Some(to_string(app_state))
        /\ from_str(local_storage.item.val) = Some(app_state)

\* the first load of the page found nothing it could use, and the entry now
\* holds the serialized empty state
C17_Witness ==
    /\ last_op.name = "load"
    /\ before_reload = NoValue
    /\ failures = 0
    /\ app_state = DefaultAppState
    /\ local_storage.item = Some(to_string(DefaultAppState))

====
